---- MODULE Spec2Model ----
(***************************************************************************)
(* Turn synchronisation of the conversation services:                      *)
(*   WebSocketService.wait_for_bot_response / start_ping_interval /        *)
(*   disconnect / send_text_message      (websocket_service.py)            *)
(*   AudioService dispatchers and greeting wait   (audio_service.py)       *)
(*   DynamicRunService.run_dynamic_conversation   (dynamic_run_service.py) *)
(*   the session part of _run_single_conversation (app.py 224-274)         *)
(*                                                                         *)
(* Time is in milliseconds.  Every coroutine step between two awaits is    *)
(* one action; a timer is the time left until an asyncio.sleep or the      *)
(* asyncio.wait_for deadline expires.  Time passes only when no coroutine  *)
(* is ready to run, and then up to the next expiry, or to Late ms before   *)
(* it.  The peer (the agent) may deliver a frame or close the connection   *)
(* at any of these instants.                                               *)
(***************************************************************************)
EXTENDS Integers, Sequences, FiniteSets, TLC

(* ----------------------------- bounds -------------------------------- *)
\* frames the agent sends during one wait_for_bot_response
MaxFrames == 3
\* frames the agent sends during one session of audio stimuli
MaxSessionFrames == 2
\* frames the agent sends during one session of text stimuli
MaxTextFrames == 3
\* frames the agent sends during one dynamic run
MaxDynamicFrames == 3
\* items of a fixed sequence
MaxItems == 2
\* max_steps of a dynamic run
MaxSteps == 2
\* how long before a timer expiry the peer may act
Late == 200
\* heartbeats of one keepalive task
MaxPings == 4
\* invocations of the stop handle
MaxStops == 2
\* conversation ids of one batch
MaxIds == 3

(* ------------------------ program constants -------------------------- *)
RESPONSE_TIMEOUT == 60000
STEP_DELAY == 5000
PING_INTERVAL == 30000
SETTLE == 500
POLL == 100
DYNAMIC_DELAY == 2000
GRACE == 1000
BATCH_DELAY == 2000

VARIABLES
    conn,        \* websocket state: "open", "closing", "closed"
    inbox,       \* frames received by the library, not yet returned by recv()
    srvSent,     \* number of frames the agent has sent
    w,           \* wait_for_bot_response: "idle", "recv", "poll", "settle"
    responses,   \* its local list `responses`
    wRem,        \* time left to the wait_for deadline
    hRem,        \* time left of message_handler's sleep
    recvAt,      \* history: wRem at the receipt of each element of responses
    readers,     \* message_handler tasks alive
    lastWait,    \* history: how the last wait ended and what it returned
    ping,        \* ping_loop task: "none", "sleep", "done", "failed",
                 \* "cancelled"
    pRem,        \* time left of ping_loop's sleep
    pingsSent,   \* session.ping frames sent
    stopCalls,   \* number of calls of the stop_ping handle
    greetSent,   \* session.greeting frames sent
    pc,          \* position of the control flow
    mode,        \* "wait", "ping", "audio", "text", "dynamic"
    items,       \* the ordered stimuli of a fixed sequence
    i,           \* loop index (1-based; enumerate's i is i - 1)
    results,     \* audio_results / text_results
    dRem,        \* time left of the control flow's sleep
    stimuli,     \* history: stimuli sent, in order
    greeting,    \* result of wait_for_target_bot_greeting
    log,         \* entries of the conversation history file, in order
    dyn,         \* run_dynamic_conversation: max_steps, step_count,
                 \* last_agent_response; history: exit (how the loop was
                 \* left), repeated (replies taken for a repetition), calls
                 \* (calls of the generator), openings (calls made with
                 \* initial_opening set), remaining (the last remaining_steps
                 \* passed)
    config,      \* the attribute config.conversation_id
    call,        \* _run_single_conversation: its argument conversation_id
                 \* and its local original_conversation_id
    batch        \* _run_multiple_conversations: config.conversation_ids,
                 \* the loop index, all_results and the summary returned

waitVars == <<w, responses, recvAt, wRem, hRem, readers, lastWait>>
pingVars == <<ping, pRem, pingsSent, stopCalls, greetSent>>
appVars == <<config, call, batch>>
flowVars == <<pc, appVars, mode, items, i, results, dRem, stimuli, greeting, log,
              dyn>>
peerVars == <<conn, inbox, srvSent>>
vars == <<conn, inbox, srvSent, w, responses, recvAt, wRem, hRem, readers,
          lastWait, ping, pRem, pingsSent, stopCalls, greetSent, pc, mode, items,
          i, results, dRem, stimuli, greeting, log, dyn, config, call, batch>>

(* ------------------------------ frames ------------------------------- *)
\* Reply texts.  "" is the empty text.
Texts == {"T1", "T2", "T3", "T4"}

\* MESSAGE_TYPES of inbound JSON frames, and three kinds for frames that are
\* not JSON objects: "binary" (bytes), "raw" (text json.loads rejects) and
\* "json" (text json.loads turns into a number, a list, a string or None).
RESPONSE_TEXT == "response.text"
RESPONSE_TEXT_DELTA == "response.text.delta"
SESSION_CLOSE == "session.close"
IDLE_TERMINATE == "idle.terminate"
SESSION_OPEN == "session.open"
NO_RESPONSE == "no_response"

\* session.open stands for the control types the code never looks at
\* (session.open, idle.warning, skill.transfer, audio.kill).
ControlKinds == {SESSION_OPEN, SESSION_CLOSE, IDLE_TERMINATE}

\* What the agent may send during one wait: kind and text.  A "raw" frame
\* with text "" is an empty text frame.
Payloads ==
    {<<RESPONSE_TEXT, "T1">>, <<RESPONSE_TEXT, "">>,
     <<RESPONSE_TEXT_DELTA, "T1">>, <<RESPONSE_TEXT_DELTA, "T3">>,
     <<RESPONSE_TEXT_DELTA, "">>,
     <<SESSION_OPEN, "">>, <<SESSION_CLOSE, "">>, <<IDLE_TERMINATE, "">>,
     <<"binary", "B">>, <<"raw", "R">>, <<"raw", "">>, <<"json", "J">>}

\* What the agent may send during a session of a fixed sequence
SessionPayloads ==
    {<<RESPONSE_TEXT, "T1">>, <<RESPONSE_TEXT_DELTA, "T3">>, <<SESSION_CLOSE, "">>,
     <<"json", "J">>}

\* What the agent may send during a session of text stimuli
TextPayloads == SessionPayloads \cup {<<RESPONSE_TEXT, "T3">>}

\* What the agent may send during a dynamic run
DynamicPayloads ==
    {<<RESPONSE_TEXT, t>> : t \in Texts} \cup {<<RESPONSE_TEXT_DELTA, "T3">>}

PayloadsOf(m) ==
    IF m = "wait" THEN Payloads
    ELSE IF m = "dynamic" THEN DynamicPayloads
    ELSE IF m = "text" THEN TextPayloads
    ELSE SessionPayloads

\* id: position in the agent's output; gap: history flag, the frame arrived
\* after the wait of a turn had ended by timeout and before the next wait;
\* settle: history flag, the frame arrived while message_handler slept after
\* a final text (137).
Frame(k, t, n, g, s) ==
    [kind |-> k, text |-> t, id |-> n, gap |-> g, settle |-> s]
NoFrame == Frame("", "", 0, FALSE, FALSE)

\* websocket_service.py 131-134 / 155-158: a str frame that parses to a
\* response.text object with a truthy `response`.
IsFinalText(f) == f.kind = RESPONSE_TEXT /\ f.text # ""
\* websocket_service.py 165-168
IsDelta(f) == f.kind = RESPONSE_TEXT_DELTA /\ f.text # ""
\* json.loads succeeds and parsed.get raises AttributeError (134, 158, 168)
IsJsonScalar(f) == f.kind = "json"
\* Python truthiness of the frame as received (str or bytes)
Truthy(f) == ~(f.kind = "raw" /\ f.text = "")

(* ------------------------- values of a wait -------------------------- *)
\* "parsed": the dict json.loads made of the frame; "raw": the frame as
\* received; "no_response": {'type': 'no_response'}; "none": None.
Parsed(f) == [o |-> "parsed", f |-> f]
Raw(f) == [o |-> "raw", f |-> f]
NoResponse == [o |-> NO_RESPONSE, f |-> NoFrame]
NoneValue == [o |-> "none", f |-> NoFrame]
\* the dict of the outer except Exception (179-186): type 'error'
ErrorValue == [o |-> "error", f |-> NoFrame]

FirstMatch(s, P(_)) ==
    LET idx == {n \in 1..Len(s) : P(s[n])}
    IN  IF idx = {} THEN 0 ELSE CHOOSE n \in idx : \A m \in idx : n <= m

\* The selection among collected frames (153-175).  Each of the two loops
\* stops at its first match, and raises at a frame whose JSON is no object.
Select(resps) ==
    LET ft == FirstMatch(resps, IsFinalText)
        dl == FirstMatch(resps, IsDelta)
        js == FirstMatch(resps, IsJsonScalar)
    IN  IF js # 0 /\ (ft = 0 \/ js < ft) THEN ErrorValue
        ELSE IF ft # 0 THEN Parsed(resps[ft])
        ELSE IF dl # 0 THEN Parsed(resps[dl])
        ELSE IF Truthy(resps[1]) THEN Raw(resps[1])
        ELSE NoResponse

\* as BestResponse, but the empty case gives best_response itself (None)
BestResponse_NoneWhenEmpty(resps) ==
    IF resps = <<>> THEN NoneValue ELSE Select(resps)

\* The except asyncio.TimeoutError branch (151-177).
BestResponse(resps) ==
    IF resps = <<>> THEN NoResponse ELSE Select(resps)

SetMin(S) == CHOOSE x \in S : \A y \in S : x <= y

(* ------------------------------ the peer ----------------------------- *)
\* the control flow has returned: nothing reads the connection any more.
\* "raised": _run_single_conversation has returned from its except clause
\* (app.py 355-357); "unclosed": disconnect has returned from its except
\* clause (websocket_service.py 231-232).
\* "refused": create_connection has returned a failure and
\* _run_single_conversation has returned it (app.py 218-220).
\* "failed_early": _run_single_conversation has returned a failure before
\* it came to create_connection (app.py 114, 124, 142, 174, 196).
ReturnPcs == {"done", "raised", "unclosed", "refused", "failed_early"}
Over == pc \in {"unit_done"} \cup ReturnPcs

\* The agent sends a frame; the library queues it until recv() takes it.
Arrive(k, t) ==
    /\ ~Over
    /\ conn = "open"
    /\ srvSent < (IF mode = "wait" THEN MaxFrames
                  ELSE IF mode = "dynamic" THEN MaxDynamicFrames
                  ELSE IF mode = "text" THEN MaxTextFrames
                  ELSE MaxSessionFrames)
    /\ <<k, t>> \in PayloadsOf(mode)
    /\ srvSent' = srvSent + 1
    /\ inbox' = Append(inbox,
           Frame(k, t, srvSent + 1,
                 w = "idle" /\ lastWait.how = "timeout" /\ stimuli # <<>>,
                 w = "settle"))
    /\ UNCHANGED <<conn, waitVars, pingVars, flowVars>>

\* The peer starts the closing handshake: the socket is neither open nor
\* closed until the handshake is over.
ServerClose ==
    /\ ~Over
    /\ conn = "open"
    /\ conn' = "closing"
    /\ UNCHANGED <<inbox, srvSent, waitVars, pingVars, flowVars>>

CloseDone ==
    /\ conn = "closing"
    /\ conn' = "closed"
    /\ UNCHANGED <<inbox, srvSent, waitVars, pingVars, flowVars>>

(* ------------------------------- time -------------------------------- *)
DelayPcs == {"delay", "grace", "batch_delay"}
\* control-flow positions that run without waiting for anything
ReadyPcs == {"batch_loop", "batch_call", "enter", "connect", "start", "loop", "teardown", "closing", "unit"}

ArmedRems ==
    (IF w # "idle" THEN {wRem} ELSE {})
    \cup (IF w \in {"poll", "settle"} THEN {hRem} ELSE {})
    \cup (IF ping = "sleep" THEN {pRem} ELSE {})
    \cup (IF pc \in DelayPcs THEN {dRem} ELSE {})

\* some coroutine can run now, or the closing handshake is under way
Ready ==
    \/ conn = "closing"
    \/ w = "recv" /\ (inbox # <<>> \/ conn # "open")
    \/ 0 \in ArmedRems
    \/ pc \in ReadyPcs

\* Time passes to the next expiry.  The peer may act at every such instant,
\* also at an expiry itself, before the coroutine it wakes has run.  For a
\* wait studied alone time also stops Late ms before the deadline.
Steps ==
    {SetMin(ArmedRems)}
    \cup (IF mode = "wait" /\ w # "idle" /\ wRem > Late
             /\ wRem - Late < SetMin(ArmedRems)
          THEN {wRem - Late} ELSE {})

Advance ==
    /\ ArmedRems # {}
    /\ ~Ready
    /\ ~Over
    /\ \E d \in Steps :
          /\ wRem' = IF w # "idle" THEN wRem - d ELSE wRem
          /\ hRem' = IF w \in {"poll", "settle"} THEN hRem - d ELSE hRem
          /\ pRem' = IF ping = "sleep" THEN pRem - d ELSE pRem
          /\ dRem' = IF pc \in DelayPcs THEN dRem - d ELSE dRem
    /\ UNCHANGED <<peerVars, w, responses, recvAt, readers, lastWait,
                   ping, pingsSent, stopCalls, greetSent,
                   pc, appVars, mode, items, i, results, stimuli, greeting, log, dyn>>

(* --------------------- results of the control flow ------------------- *)
Absent == [o |-> "absent", f |-> NoFrame]
\* one entry of audio_results / text_results; step 0: the entry has no 'step'
Res(st, n, ok, err, bot) ==
    [step |-> st, stepNumber |-> n, success |-> ok, error |-> err, bot |-> bot]
NoGreeting == [success |-> FALSE, error |-> "none"]

\* wait_for_target_bot_greeting, after the wait returned `out`
IsDict(out) ==
    out.o \in {"parsed", NO_RESPONSE, "error"} \/ (out.o = "raw" /\ out.f.kind = "binary")
TypeOf(out) ==
    IF out.o = "parsed" THEN out.f.kind
    ELSE IF out.o = NO_RESPONSE THEN NO_RESPONSE
    ELSE IF out.o = "error" THEN "error"
    ELSE "raw"
GreetingResult(out) ==
    IF IsDict(out) /\ TypeOf(out) # NO_RESPONSE
    THEN IF TypeOf(out) = SESSION_CLOSE
         THEN [success |-> FALSE, error |-> "Session closed by server: session.close"]
         ELSE IF TypeOf(out) = IDLE_TERMINATE
         THEN [success |-> FALSE, error |-> "Session closed by server: idle.terminate"]
         ELSE [success |-> TRUE, error |-> ""]
    ELSE [success |-> FALSE, error |-> "No initial greeting received from Agent"]

(* ------------------------------- texts ------------------------------- *)
\* The characters of the texts of the model: "T1" and "T2" are the same
\* sentence up to case, surrounding whitespace and the final period; so
\* are the short "T3" and "T4", which are unrelated to the first two.  "T5"
\* holds the sentence of "T1" between other words, "S20" and "S21" are
\* pieces of it of 20 and of 21 characters, "W" is blank.  The other
\* entries are frames returned as received.
Chars(t) ==
    CASE t = "T1" ->
        <<"P", "l", "e", "a", "s", "e", " ", "p", "r", "o", "v", "i", "d",
        "e", " ", "y", "o", "u", "r", " ", "d", "a", "t", "e", " ", "o", "f",
        " ", "b", "i", "r", "t", "h", ".">>
      [] t = "T2" ->
        <<" ", "p", "l", "e", "a", "s", "e", " ", "p", "r", "o", "v", "i",
        "d", "e", " ", "y", "o", "u", "r", " ", "d", "a", "t", "e", " ", "o",
        "f", " ", "b", "i", "r", "t", "h">>
      [] t = "T3" ->
        <<"G", "o", "o", "d", "b", "y", "e", ".">>
      [] t = "T4" ->
        <<"g", "o", "o", "d", "b", "y", "e">>
      [] t = "T5" ->
        <<"O", "K", ".", " ", "P", "l", "e", "a", "s", "e", " ", "p", "r", "o",
        "v", "i", "d", "e", " ", "y", "o", "u", "r", " ", "d", "a", "t", "e",
        " ", "o", "f", " ", "b", "i", "r", "t", "h", ".", " ", "T", "h", "a",
        "n", "k", "s">>
      [] t = "S20" ->
        <<"p", "r", "o", "v", "i", "d", "e", " ", "y", "o", "u", "r", " ", "d",
        "a", "t", "e", " ", "o", "f">>
      [] t = "S21" ->
        <<"r", "o", "v", "i", "d", "e", " ", "y", "o", "u", "r", " ", "d", "a",
        "t", "e", " ", "o", "f", " ", "b">>
      [] t = "W" ->
        <<" ", " ">>
      [] t = "R" ->
        <<"n", "o", "t", " ", "j", "s", "o", "n">>
      [] t = "session.open" ->
        <<"{", "\"", "t", "y", "p", "e", "\"", ":", " ", "\"", "s", "e", "s",
        "s", "i", "o", "n", ".", "o", "p", "e", "n", "\"", "}">>
      [] t = "session.close" ->
        <<"{", "\"", "t", "y", "p", "e", "\"", ":", " ", "\"", "s", "e", "s",
        "s", "i", "o", "n", ".", "c", "l", "o", "s", "e", "\"", "}">>
      [] t = "idle.terminate" ->
        <<"{", "\"", "t", "y", "p", "e", "\"", ":", " ", "\"", "i", "d", "l",
        "e", ".", "t", "e", "r", "m", "i", "n", "a", "t", "e", "\"", "}">>
      [] OTHER -> <<>>

UpperCase == <<"A", "B", "C", "D", "E", "F", "G", "H", "I", "J", "K", "L", "M",
               "N", "O", "P", "Q", "R", "S", "T", "U", "V", "W", "X", "Y", "Z">>
LowerCase == <<"a", "b", "c", "d", "e", "f", "g", "h", "i", "j", "k", "l", "m",
               "n", "o", "p", "q", "r", "s", "t", "u", "v", "w", "x", "y", "z">>
\* as Lower, but the case is kept
Lower_Identity(s) == s

\* str.lower
Lower(s) ==
    [n \in 1..Len(s) |->
        IF \E k \in 1..Len(UpperCase) : UpperCase[k] = s[n]
        THEN LowerCase[CHOOSE k \in 1..Len(UpperCase) : UpperCase[k] = s[n]]
        ELSE s[n]]
\* str.strip
Strip(s) ==
    LET keep == {n \in 1..Len(s) : s[n] \notin {" ", "\t", "\n"}}
    IN  IF keep = {} THEN <<>>
        ELSE SubSeq(s, SetMin(keep), CHOOSE n \in keep : \A m \in keep : m <= n)
\* a in b
Contains(a, b) ==
    \E k \in 0..(Len(b) - Len(a)) : SubSeq(b, k + 1, k + Len(a)) = a

MIN_CONTAIN == 20
\* as is_repeated_agent_prompt, but a contained text of any length counts
is_repeated_agent_prompt_NoThreshold(current, previous) ==
    IF Chars(current) = <<>> \/ Chars(previous) = <<>> THEN FALSE
    ELSE LET a == Lower(Strip(Chars(current)))
             b == Lower(Strip(Chars(previous)))
         IN  a = b \/ Contains(a, b) \/ Contains(b, a)

is_repeated_agent_prompt(current, previous) ==
    IF Chars(current) = <<>> \/ Chars(previous) = <<>> THEN FALSE
    ELSE LET a == Lower(Strip(Chars(current)))
             b == Lower(Strip(Chars(previous)))
         IN  \/ a = b
             \/ (Len(a) > MIN_CONTAIN /\ Contains(a, b))
             \/ (Len(b) > MIN_CONTAIN /\ Contains(b, a))

\* dynamic_run_service.py 303-308: the reply text of a send result
BotText(out) ==
    IF out.o = "parsed" THEN out.f.text
    ELSE IF out.o = "raw" /\ out.f.kind # "binary"
         THEN (IF out.f.kind = "raw" THEN out.f.text ELSE out.f.kind)
    ELSE ""

(* ----------------------- wait_for_bot_response ----------------------- *)
\* wait_for_bot_response up to the first recv(): a new message_handler
\* under asyncio.wait_for with the timeout RESPONSE_TIMEOUT.
BeginWait ==
    /\ w' = "recv"
    /\ responses' = <<>>
    /\ recvAt' = <<>>
    /\ wRem' = RESPONSE_TIMEOUT
    /\ hRem' = 0
    /\ readers' = readers + 1
    /\ UNCHANGED lastWait

\* as HandlerComplete, but no frame is recognised as the completed reply
HandlerComplete_Never(f) == FALSE

\* message_handler's test of a received frame (131-134)
HandlerComplete(f) == IsFinalText(f)

\* as StepNumber, but enumerate's index is used as it is
StepNumber_ZeroBased(n) == n - 1

\* the 1-based stepNumber of the item at loop position n (enumerate's i + 1)
StepNumber(n) == n

\* as SendTextOk, but without the test of websocket.open
SendTextOk_Unguarded(c) == TRUE

\* send_text_message's guard (238): the frame is sent only on an open socket
SendTextOk(c) == c = "open"

\* as AfterSend, but the wait is started and not awaited
AfterSend_NotAwaited == "loop"

\* what the control flow does after `await websocket.send`: it awaits
\* wait_for_bot_response ("turn") before anything else
AfterSend == "turn"

\* as Cancel, but the task is left running
Cancel_Nothing(p) == p

\* task.cancel() of stop_ping
Cancel(p) == IF p = "sleep" THEN "cancelled" ELSE p

\* ConversationHistory.log appends one entry (conversation.py 164-173)
Logged(l, who, text) == Append(l, [who |-> who, text |-> text])
\* the texts of the stimuli, by position
UserText(n) == <<"U1", "U2", "U3", "U4">>[n]
\* a str returned as received, as it is logged
RawText(out) == IF out.f.kind = "raw" THEN out.f.text ELSE out.f.kind
\* isinstance(bot_response, str) and bot_response.strip()
NonBlankStr(out) ==
    out.o = "raw" /\ out.f.kind # "binary" /\ Strip(Chars(RawText(out))) # <<>>
\* wait_for_target_bot_greeting logs the greeting's `response` (138-141)
LogGreeting(l, out) ==
    IF IsDict(out) /\ TypeOf(out) = RESPONSE_TEXT
    THEN Logged(l, "Agent", out.f.text) ELSE l
\* as LogTextReply, but the reply is not logged
LogTextReply_Nothing(l, out) == l

\* send_text_and_wait_for_response logs `response` or `delta`, or the
\* non-blank str (280-291)
LogTextReply(l, out) ==
    IF out.o = "parsed" THEN Logged(l, "Agent", out.f.text)
    ELSE IF NonBlankStr(out) THEN Logged(l, "Agent", RawText(out))
    ELSE l
\* send_audio_file_and_wait_for_response logs `response`, or the non-blank
\* str (85-90)
LogAudioReply(l, out) ==
    IF out.o = "parsed" /\ out.f.kind = RESPONSE_TEXT
    THEN Logged(l, "Agent", out.f.text)
    ELSE IF NonBlankStr(out) THEN Logged(l, "Agent", RawText(out))
    ELSE l

\* The control flow resumes with the value `out` of the wait.
Return(out) ==
    CASE pc = "unit_wait" ->
            /\ greeting' = GreetingResult(out)
            /\ log' = LogGreeting(log, out)
            /\ pc' = "unit_done"
            /\ UNCHANGED <<appVars, mode, items, i, results, dRem, stimuli, dyn>>
      [] pc = "greet" ->
            /\ greeting' = GreetingResult(out)
            /\ log' = LogGreeting(log, out)
            /\ pc' = IF GreetingResult(out).success THEN "loop" ELSE "teardown"
            /\ UNCHANGED <<appVars, mode, items, i, results, dRem, stimuli, dyn>>
      [] pc = "turn" /\ mode \in {"audio", "text"} ->
            /\ results' = Append(results,
                  Res(IF mode = "audio" THEN items[i].step ELSE i,
                      StepNumber(i), TRUE, "", out))
            /\ IF i < Len(items)
               THEN pc' = "delay" /\ dRem' = STEP_DELAY /\ i' = i
               ELSE pc' = "loop" /\ dRem' = dRem /\ i' = i + 1
            /\ log' = IF mode = "text" THEN LogTextReply(log, out)
                       ELSE LogAudioReply(log, out)
            /\ UNCHANGED <<appVars, mode, items, stimuli, greeting, dyn>>
      [] pc = "turn" /\ mode = "dynamic" ->
            /\ results' = Append(results, Res(0, 0, TRUE, "", out))
            /\ dyn' = IF is_repeated_agent_prompt(BotText(out), dyn.last_agent_response)
                      THEN [dyn EXCEPT !.step_count = @ - 1, !.repeated = @ + 1]
                      ELSE [dyn EXCEPT !.last_agent_response = BotText(out)]
            /\ pc' = "delay"
            /\ dRem' = DYNAMIC_DELAY
            /\ log' = LogAudioReply(log, out)
            /\ UNCHANGED <<appVars, mode, items, i, stimuli, greeting>>

EndWait(out, how) ==
    /\ w' = "idle"
    /\ readers' = readers - 1
    /\ lastWait' = [out |-> out, how |-> how, got |-> responses,
                    at |-> recvAt, end |-> wRem]
    /\ UNCHANGED <<responses, recvAt, wRem, hRem>>
    /\ Return(out)
    /\ UNCHANGED <<peerVars, pingVars>>

\* recv() returns a queued frame (126-142)
HRecv ==
    /\ w = "recv"
    /\ inbox # <<>>
    /\ ~IsJsonScalar(Head(inbox))
    /\ inbox' = Tail(inbox)
    /\ responses' = Append(responses, Head(inbox))
    /\ recvAt' = Append(recvAt, wRem)
    /\ IF HandlerComplete(Head(inbox))
       THEN w' = "settle" /\ hRem' = SETTLE
       ELSE w' = "poll" /\ hRem' = POLL
    /\ UNCHANGED <<conn, srvSent, wRem, readers, lastWait, pingVars, flowVars>>

\* recv() returns a frame whose JSON is no object: parsed.get raises, the
\* exception leaves message_handler and wait_for, and the outer except
\* returns the error dict (134, 179-186)
HRaise ==
    /\ w = "recv"
    /\ inbox # <<>>
    /\ IsJsonScalar(Head(inbox))
    /\ w' = "idle"
    /\ readers' = readers - 1
    /\ responses' = Append(responses, Head(inbox))
    /\ recvAt' = Append(recvAt, wRem)
    /\ lastWait' = [out |-> ErrorValue, how |-> "error",
                    got |-> Append(responses, Head(inbox)),
                    at |-> Append(recvAt, wRem), end |-> wRem]
    /\ inbox' = Tail(inbox)
    /\ UNCHANGED <<wRem, hRem, conn, srvSent, pingVars>>
    /\ Return(ErrorValue)

\* recv() raises ConnectionClosed: message_handler returns None (144-145),
\* and so does the wait (149-150)
HClosed ==
    /\ w = "recv"
    /\ inbox = <<>>
    /\ conn # "open"
    /\ EndWait(NoneValue, "closed")

\* asyncio.sleep(0.1) is over: next recv()
HWake ==
    /\ w = "poll"
    /\ hRem = 0
    /\ w' = "recv"
    /\ UNCHANGED <<responses, recvAt, wRem, hRem, readers, lastWait,
                   peerVars, pingVars, flowVars>>

\* asyncio.sleep(0.5) is over: return parsed (137-138, 149-150)
HSettled ==
    /\ w = "settle"
    /\ hRem = 0
    /\ EndWait(Parsed(responses[Len(responses)]), "resolved")

\* asyncio.TimeoutError (151-177)
WTimeout ==
    /\ w # "idle"
    /\ wRem = 0
    /\ EndWait(BestResponse(responses), "timeout")

(* ------------------------- start_ping_interval ----------------------- *)
\* as StartPing, but the task made is never run
StartPing_NotScheduled ==
    /\ ping' = "done"
    /\ pRem' = PING_INTERVAL
    /\ UNCHANGED <<pingsSent, stopCalls, greetSent>>

\* ping_loop up to its first sleep
StartPing ==
    /\ ping' = IF conn = "open" THEN "sleep" ELSE "done"
    /\ pRem' = PING_INTERVAL
    /\ UNCHANGED <<pingsSent, stopCalls, greetSent>>

\* as PingSendOk, but the frame is sent whatever the state of the socket
PingSendOk_Always(c) == TRUE

\* send_ping sends when websocket.open (191)
PingSendOk(c) == c = "open"

\* as PingInbox, but the heartbeat takes a frame off the connection
PingInbox_Recv(q) == IF q = <<>> THEN q ELSE Tail(q)

\* the frames the library holds after a heartbeat: ping_loop and send_ping
\* call send only, never recv
PingInbox(q) == q

\* The sleep is over: send_ping, then the loop test.  When the connection
\* fails under the send, the send raises and the except clause leaves the
\* loop (208-210).
PingFire ==
    /\ ping = "sleep"
    /\ pRem = 0
    /\ \E send \in {"ok", "raises"} :
          \/ /\ send = "ok"
             /\ pingsSent' = IF PingSendOk(conn) THEN pingsSent + 1 ELSE pingsSent
             /\ ping' = IF conn = "open" THEN "sleep" ELSE "done"
             /\ conn' = conn
          \/ /\ send = "raises" /\ PingSendOk(conn) /\ conn = "open"
             /\ pingsSent' = pingsSent
             /\ ping' = "failed"
             /\ conn' = "closing"
    /\ pRem' = PING_INTERVAL
    /\ inbox' = PingInbox(inbox)
    /\ UNCHANGED <<stopCalls, greetSent, srvSent, waitVars, flowVars>>

\* the handle stop_ping
StopPing ==
    /\ stopCalls' = stopCalls + 1
    /\ ping' = Cancel(ping)
    /\ UNCHANGED <<pRem, pingsSent, greetSent>>

(* ------------------------- the fixed sequences ----------------------- *)
\* after an entry whose turn was attempted: the inter-step delay (231-232,
\* 348-349), or the end of the list
NextItem ==
    IF i < Len(items)
    THEN pc' = "delay" /\ dRem' = STEP_DELAY /\ i' = i
    ELSE pc' = "loop" /\ dRem' = dRem /\ i' = i + 1

\* as Continue, but the loop stays at the item
Continue_Stay(n) == n

\* `continue` (214, 249): the for loop goes on to the next item
Continue(n) == n + 1

\* what os.path.exists and open find at an item's filePath
FileStates == {"ok", "missing", "unreadable"}

\* One iteration of send_all_audio_files_sequentially up to its first await.
\* file: what the file system holds at filePath when the item is reached.
AudioStep ==
    /\ pc = "loop" /\ mode = "audio" /\ i <= Len(items)
    /\ LET it == items[i] IN
       \/ /\ ~it.success
          /\ results' = Append(results,
                Res(it.step, StepNumber(i), FALSE, "Download failed", Absent))
          /\ i' = Continue(i)
          /\ UNCHANGED <<pc, items, dRem, stimuli, log, waitVars>>
       \/ /\ it.success
          /\ \E file \in FileStates :
             /\ items' = [items EXCEPT ![i].file = file]
             /\ \/ \* the closed check comes before the look at the file
                   \* (195-203)
                   /\ conn = "closed"
                   /\ results' = Append(results,
                         Res(it.step, StepNumber(i), FALSE,
                             "WebSocket closed before send", Absent))
                   /\ pc' = "teardown"
                   /\ UNCHANGED <<i, dRem, stimuli, log, waitVars>>
                \/ /\ conn # "closed" /\ file = "missing"
                   /\ results' = Append(results,
                         Res(it.step, StepNumber(i), FALSE, "File not found", Absent))
                   /\ i' = Continue(i)
                   /\ UNCHANGED <<pc, dRem, stimuli, log, waitVars>>
                \/ \* open(file_path) fails (35-44)
                   /\ conn # "closed" /\ file = "unreadable"
                   /\ results' = Append(results,
                         Res(it.step, StepNumber(i), FALSE, "read error", Absent))
                   /\ NextItem
                   /\ UNCHANGED <<stimuli, log, waitVars>>
                \/ \* websocket.send raises on a closing socket (101-107)
                   /\ file = "ok" /\ conn = "closing"
                   /\ results' = Append(results,
                         Res(it.step, StepNumber(i), FALSE, "send error", Absent))
                   /\ log' = Logged(log, "User", UserText(i))
                   /\ NextItem
                   /\ UNCHANGED <<stimuli, waitVars>>
                \/ /\ file = "ok" /\ conn = "open"
                   /\ log' = Logged(log, "User", UserText(i))
                   /\ stimuli' = Append(stimuli, i)
                   /\ BeginWait
                   /\ pc' = AfterSend
                   /\ UNCHANGED <<i, results, dRem>>
    /\ UNCHANGED <<appVars, mode, greeting, dyn, peerVars, pingVars>>

\* One iteration of send_all_text_steps_sequentially up to its first await.
TextStep ==
    /\ pc = "loop" /\ mode = "text" /\ i <= Len(items)
    /\ \/ /\ conn = "closed"
          /\ results' = Append(results,
                Res(0, StepNumber(i), FALSE, "WebSocket closed before send", Absent))
          /\ pc' = "teardown"
          /\ UNCHANGED <<i, dRem, stimuli, log, waitVars>>
       \/ /\ conn # "closed"
          /\ log' = Logged(log, "User", UserText(i))
          /\ stimuli' = IF SendTextOk(conn) THEN Append(stimuli, i) ELSE stimuli
          /\ BeginWait
          /\ pc' = AfterSend
          /\ UNCHANGED <<i, results, dRem>>
    /\ UNCHANGED <<appVars, mode, items, greeting, dyn, peerVars, pingVars>>

\* the for loop is exhausted: return the results
LoopExit ==
    /\ pc = "loop" /\ mode \in {"audio", "text"} /\ i > Len(items)
    /\ pc' = "teardown"
    /\ UNCHANGED <<appVars, mode, items, i, results, dRem, stimuli, greeting, log, dyn,
                   peerVars, pingVars, waitVars>>

\* asyncio.sleep(STEP_DELAY / 1000) or asyncio.sleep(2) is over
DelayDone ==
    /\ pc = "delay"
    /\ dRem = 0
    /\ pc' = "loop"
    /\ i' = IF mode = "dynamic" THEN i ELSE i + 1
    /\ UNCHANGED <<appVars, mode, items, results, dRem, stimuli, greeting, log, dyn,
                   peerVars, pingVars, waitVars>>

(* ---------------------- run_dynamic_conversation --------------------- *)
\* as LoopContinues, but one more iteration is made
LoopContinues_OneMore(step_count, max_steps) == step_count <= max_steps

\* the test of the while loop (232)
LoopContinues(step_count, max_steps) == step_count < max_steps

\* as InitialOpening, but the flag is never set
InitialOpening_Never(step_count) == FALSE

\* initial_opening=(step_count == 1) (242)
InitialOpening(step_count) == step_count = 1

\* as RemainingSteps, but the current step is not counted
RemainingSteps_Less(max_steps, step_count) == max_steps - step_count

\* remaining_steps=max_steps - step_count + 1 (241)
RemainingSteps(max_steps, step_count) == max_steps - step_count + 1

\* step_count += 1 and the call of generate_next_user_utterance (233-243)
Called(d) ==
    [d EXCEPT !.step_count = @ + 1,
              !.calls = @ + 1,
              !.openings = @ + (IF InitialOpening(d.step_count + 1) THEN 1 ELSE 0),
              !.remaining = RemainingSteps(d.max_steps, d.step_count + 1)]

\* as Break, but the outcomes are replaced by one error entry
Break_AsError(res) == <<Res(0, 0, FALSE, "exception", Absent)>>

\* `break` (247, 252): the loop is left and audio_results is returned as
\* it is (323-324)
Break(res) == res

\* One iteration of the while loop up to its first suspension on the
\* socket.  gen: what generate_next_user_utterance gives; tts: whether
\* synthesize_single succeeds.
DynamicStep ==
    /\ pc = "loop" /\ mode = "dynamic"
    /\ \/ /\ ~LoopContinues(dyn.step_count, dyn.max_steps)
          /\ dyn' = [dyn EXCEPT !.exit = "limit"]
          /\ pc' = "teardown"
          /\ UNCHANGED <<results, dRem, stimuli, log, waitVars>>
       \/ /\ LoopContinues(dyn.step_count, dyn.max_steps)
          /\ \E gen \in {"fail", "empty", "text"}, tts \in BOOLEAN :
             \/ /\ gen # "text" /\ tts
                /\ dyn' = [Called(dyn) EXCEPT !.exit = gen]
                /\ results' = Break(results)
                /\ pc' = "teardown"
                /\ UNCHANGED <<dRem, stimuli, log, waitVars>>
             \/ \* synthesize_single raises: except Exception (326-328)
                /\ gen = "text" /\ ~tts
                /\ dyn' = [Called(dyn) EXCEPT !.exit = "exception"]
                /\ results' = <<Res(0, 0, FALSE, "exception", Absent)>>
                /\ pc' = "teardown"
                /\ UNCHANGED <<dRem, stimuli, log, waitVars>>
             \/ \* the socket is closed (27-32) or the send raises (101-107)
                /\ gen = "text" /\ tts /\ conn # "open"
                /\ results' = Append(results,
                      Res(0, 0, FALSE,
                          IF conn = "closed" THEN "WebSocket is not open" ELSE "send error",
                          Absent))
                /\ dyn' = [Called(dyn) EXCEPT !.last_agent_response = ""]
                /\ log' = IF conn = "closed" THEN log
                           ELSE Logged(log, "User", UserText(dyn.step_count + 1))
                /\ pc' = "delay"
                /\ dRem' = DYNAMIC_DELAY
                /\ UNCHANGED <<stimuli, waitVars>>
             \/ /\ gen = "text" /\ tts /\ conn = "open"
                /\ dyn' = Called(dyn)
                /\ log' = Logged(log, "User", UserText(dyn.step_count + 1))
                /\ stimuli' = Append(stimuli, dyn.step_count + 1)
                /\ BeginWait
                /\ pc' = AfterSend
                /\ UNCHANGED <<results, dRem>>
    /\ UNCHANGED <<appVars, mode, items, i, greeting, peerVars, pingVars>>

(* ------------------- _run_single_conversation 100-360 ---------------- *)
\* as Restored, but the attribute keeps the value of the call
Restored_Kept(cfg, original) == cfg

\* the finally clause (358-360): config.conversation_id gets the value
\* saved at the entry
Restored(cfg, original) == [cfg EXCEPT !.conversation_id = original]

\* every return of the function passes its finally clause
Finally ==
    config' = IF pc' \in ReturnPcs
              THEN Restored(config, call.original_conversation_id)
              ELSE config

\* conversation ids of a session studied alone
SessionIds == {"c1"}

\* The entry of _run_single_conversation (103-104), then the steps before
\* the connection (108-213): they end in a failure returned, or the
\* function comes to create_connection (216).
Enter ==
    /\ pc = "enter"
    /\ \E id \in SessionIds, early \in {"ok", "fails"} :
          /\ call' = [conversation_id |-> id,
                      original_conversation_id |-> config.conversation_id]
          /\ pc' = IF early = "ok" THEN "connect" ELSE "failed_early"
          /\ config' = IF early = "ok"
                       THEN [config EXCEPT !.conversation_id = id]
                       ELSE Restored([config EXCEPT !.conversation_id = id],
                                     config.conversation_id)
    /\ UNCHANGED <<batch, mode, items, i, results, dRem, stimuli, greeting, log,
                   dyn, peerVars, pingVars, waitVars>>

\* as GreetingFrames, but create_connection sends no greeting
GreetingFrames_None(c) == 0

\* the session.greeting frames create_connection sends after its sleep:
\* one when websocket.open (45-48)
GreetingFrames(c) == IF c = "open" THEN 1 ELSE 0

\* websockets.connect has returned the connection (39): create_connection
\* sleeps one second (44)
Connected ==
    /\ pc = "connect"
    /\ pc' = "grace"
    /\ dRem' = GRACE
    /\ UNCHANGED <<appVars, mode, items, i, results, stimuli, greeting, log, dyn,
                   peerVars, pingVars, waitVars>>

\* The sleep is over: the greeting is sent on an open socket and
\* create_connection returns success (50-55).  When the connection fails
\* under the send, the send raises, create_connection returns a failure
\* (57-63) and _run_single_conversation returns (app.py 218-220).
GraceDone ==
    /\ pc = "grace"
    /\ dRem = 0
    /\ \E send \in {"ok", "raises"} :
          \/ /\ send = "ok"
             /\ greetSent' = greetSent + GreetingFrames(conn)
             /\ pc' = "start"
             /\ conn' = conn
          \/ /\ send = "raises" /\ conn = "open"
             /\ greetSent' = greetSent
             /\ pc' = "refused"
             /\ conn' = "closing"
    /\ Finally
    /\ UNCHANGED <<call, batch, mode, items, i, results, dRem, stimuli, greeting,
                   log, dyn,
                   inbox, srvSent, ping, pRem, pingsSent, stopCalls, waitVars>>

\* start_ping_interval (225), ConversationHistory(...) (229), then
\* wait_for_target_bot_greeting up to its recv() (233).  The constructor
\* opens the log file: when that raises, the except clause of
\* _run_single_conversation returns the failure (355-357).
StartSession ==
    /\ pc = "start"
    /\ StartPing
    /\ \E history \in {"ok", "raises"} :
          \/ /\ history = "ok"
             /\ BeginWait
             /\ pc' = "greet"
          \/ /\ history = "raises"
             /\ pc' = "raised"
             /\ UNCHANGED waitVars
    /\ Finally
    /\ UNCHANGED <<call, batch, mode, items, i, results, dRem, stimuli, greeting,
                   log, dyn, peerVars>>

\* stop_ping_interval(), then disconnect up to `await websocket.close()`
\* (221-229).  On an open socket the session.disconnect frame is sent
\* first; when the connection fails under that send, the send raises, the
\* except clause logs (231-232) and disconnect returns: close() is not
\* reached, the library is left to finish the failed connection.
Teardown ==
    /\ pc = "teardown"
    /\ StopPing
    /\ \E send \in {"ok", "raises"} :
          \/ /\ send = "ok"
             /\ pc' = "closing"
             /\ UNCHANGED conn
          \/ /\ send = "raises" /\ conn = "open"
             /\ conn' = "closing"
             /\ pc' = "unclosed"
    /\ Finally
    /\ UNCHANGED <<call, batch, mode, items, i, results, dRem, stimuli, greeting,
                   log, dyn,
                   inbox, srvSent, waitVars>>

\* websocket.close() is over
Disconnected ==
    /\ pc = "closing"
    /\ conn' = "closed"
    /\ pc' = "done"
    /\ Finally
    /\ UNCHANGED <<call, batch, mode, items, i, results, dRem, stimuli, greeting,
                   log, dyn,
                   inbox, srvSent, pingVars, waitVars>>

(* --------------------------- direct callers -------------------------- *)
\* a caller awaits wait_for_target_bot_greeting, and with it
\* wait_for_bot_response, alone
UnitWait ==
    /\ pc = "unit"
    /\ BeginWait
    /\ pc' = "unit_wait"
    /\ UNCHANGED <<appVars, mode, items, i, results, dRem, stimuli, greeting, log, dyn,
                   peerVars, pingVars>>

\* a caller starts the keepalive and holds its handle
StartPingCall ==
    /\ pc = "api"
    /\ ping = "none"
    /\ StartPing
    /\ UNCHANGED <<peerVars, waitVars, flowVars>>

StopPingCall ==
    /\ pc = "api"
    /\ ping # "none"
    /\ stopCalls < MaxStops
    /\ StopPing
    /\ UNCHANGED <<peerVars, waitVars, flowVars>>

\* the heartbeats are counted up to MaxPings; a wake-up that sends nothing
\* is not counted
PingFireCapped ==
    /\ pingsSent < MaxPings \/ conn # "open"
    /\ PingFire

(* --------------------------- specifications -------------------------- *)
\* download_results: the item at position n is named step n; success is
\* whether its download succeeded; file: history, what the file system held
\* at filePath when the loop reached the item
ItemLists ==
    UNION {{s \in [1..n -> [step : 1..MaxItems, success : BOOLEAN,
                              file : {"unseen"}]] :
                \A a \in 1..n : s[a].step = a}
           : n \in 0..MaxItems}
\* texts: the item at position n is the n-th text
TextLists ==
    {[k \in 1..n |-> [step |-> k, success |-> TRUE, file |-> "unseen"]]
        : n \in 0..MaxItems}

\* no batch is run
NoBatch == [ids |-> <<>>, index |-> 0, all_results |-> <<>>,
            total_conversations |-> 0, successful |-> 0, failed |-> 0]

InitCommon ==
    /\ conn = "open" /\ inbox = <<>> /\ srvSent = 0
    /\ w = "idle" /\ responses = <<>> /\ recvAt = <<>> /\ wRem = 0 /\ hRem = 0
    /\ readers = 0
    /\ lastWait = [out |-> NoneValue, how |-> "none", got |-> <<>>,
                   at |-> <<>>, end |-> 0]
    /\ ping = "none" /\ pRem = 0 /\ pingsSent = 0 /\ stopCalls = 0
    /\ greetSent = 0
    /\ i = 1 /\ results = <<>> /\ dRem = 0 /\ stimuli = <<>>
    /\ greeting = NoGreeting
    /\ log = <<>>
    /\ config = [conversation_id |-> "c0"]
    /\ call = [conversation_id |-> "", original_conversation_id |-> ""]

\* a session at the entry of _run_single_conversation
Init ==
    /\ InitCommon
    /\ batch = NoBatch
    /\ pc = "enter"
    /\ mode \in {"audio", "text", "dynamic"}
    /\ items \in (IF mode = "audio" THEN ItemLists
                  ELSE IF mode = "text" THEN TextLists ELSE {<<>>})
    /\ dyn \in [max_steps : IF mode = "dynamic" THEN 1..MaxSteps ELSE {0},
                step_count : {0}, last_agent_response : {""},
                exit : {""}, repeated : {0}, calls : {0}, openings : {0},
                remaining : {0}]

Peer ==
    \/ \E p \in PayloadsOf(mode) : Arrive(p[1], p[2])
    \/ ServerClose
    \/ CloseDone

Waiting == HRecv \/ HRaise \/ HClosed \/ HWake \/ HSettled \/ WTimeout

Next ==
    \/ Peer
    \/ Advance
    \/ Waiting
    \/ PingFire
    \/ Enter
    \/ Connected
    \/ GraceDone
    \/ StartSession
    \/ AudioStep
    \/ TextStep
    \/ LoopExit
    \/ DelayDone
    \/ DynamicStep
    \/ Teardown
    \/ Disconnected

Spec == Init /\ [][Next]_vars

\* wait_for_target_bot_greeting, and with it wait_for_bot_response, alone
InitWait ==
    /\ InitCommon
    /\ batch = NoBatch
    /\ pc = "unit" /\ mode = "wait" /\ items = <<>>
    /\ dyn = [max_steps |-> 0, step_count |-> 0, last_agent_response |-> "",
              exit |-> "", repeated |-> 0, calls |-> 0, openings |-> 0,
              remaining |-> 0]
NextWait == Peer \/ Advance \/ Waiting \/ UnitWait
SpecWait == InitWait /\ [][NextWait]_vars

\* is_repeated_agent_prompt alone: items holds the two arguments of the
\* call, results the value returned
RepeatTexts == {"", "W", "T1", "T2", "T3", "T4", "T5", "S20", "S21", "R"}
InitRepeat ==
    /\ InitCommon
    /\ batch = NoBatch
    /\ pc = "fn" /\ mode = "repeat"
    /\ items \in {<<[current |-> c, previous |-> p]>> : c, p \in RepeatTexts}
    /\ dyn = [max_steps |-> 0, step_count |-> 0, last_agent_response |-> "",
              exit |-> "", repeated |-> 0, calls |-> 0, openings |-> 0,
              remaining |-> 0]
RepeatCall ==
    /\ pc = "fn"
    /\ results' = <<is_repeated_agent_prompt(items[1].current, items[1].previous)>>
    /\ pc' = "fn_done"
    /\ UNCHANGED <<appVars, mode, items, i, dRem, stimuli, greeting, log, dyn,
                   peerVars, pingVars, waitVars>>
NextRepeat == RepeatCall
SpecRepeat == InitRepeat /\ [][NextRepeat]_vars

(* ---------------------- _run_multiple_conversations ----------------- *)
BatchIds == {"c1", "c2"}
\* config.conversation_ids: the batch is run for more than one id
\* (app.py 43)
IdLists == UNION {[1..n -> BatchIds] : n \in 2..MaxIds}

\* as CountFailed, but only the entries of raised exceptions are counted
CountFailed_OnlyRaised(rs) ==
    Cardinality({n \in 1..Len(rs) : rs[n].error # ""})

\* len([r for r in all_results if r['success']]) (86)
CountSuccessful(rs) == Cardinality({n \in 1..Len(rs) : rs[n].success})
\* len([r for r in all_results if not r['success']]) (87)
CountFailed(rs) == Cardinality({n \in 1..Len(rs) : ~rs[n].success})

InitBatch ==
    /\ InitCommon
    /\ pc = "batch_loop" /\ mode = "batch" /\ items = <<>>
    /\ dyn = [max_steps |-> 0, step_count |-> 0, last_agent_response |-> "",
              exit |-> "", repeated |-> 0, calls |-> 0, openings |-> 0,
              remaining |-> 0]
    /\ batch \in {[ids |-> s, index |-> 1, all_results |-> <<>>,
                   total_conversations |-> Len(s), successful |-> 0,
                   failed |-> 0] : s \in IdLists}

\* the for loop calls _run_single_conversation with the next id (55-59);
\* the callee saves and sets config.conversation_id (103-104)
BatchCall ==
    /\ pc = "batch_loop"
    /\ batch.index <= Len(batch.ids)
    /\ call' = [conversation_id |-> batch.ids[batch.index],
                original_conversation_id |-> config.conversation_id]
    /\ config' = [config EXCEPT !.conversation_id = batch.ids[batch.index]]
    /\ pc' = "batch_call"
    /\ UNCHANGED <<batch, mode, items, i, results, dRem, stimuli, greeting, log,
                   dyn, peerVars, pingVars, waitVars>>

\* The callee is over: it has returned a result with success true or
\* false, or an exception has left it; its finally clause has run.  The
\* entry is appended (60-64, 78-82); after a result returned and before a
\* further id the loop sleeps (72-74).
BatchReturn ==
    /\ pc = "batch_call"
    /\ config' = Restored(config, call.original_conversation_id)
    /\ \E outcome \in {"success", "failure", "raises"} :
          /\ batch' = [batch EXCEPT
                !.all_results = Append(@,
                    [conversation_id |-> call.conversation_id,
                     success |-> (outcome = "success"),
                     error |-> IF outcome = "raises" THEN "raised" ELSE ""]),
                !.index = IF outcome # "raises" /\ batch.index < batch.total_conversations
                          THEN @ ELSE @ + 1]
          /\ IF outcome # "raises" /\ batch.index < batch.total_conversations
             THEN pc' = "batch_delay" /\ dRem' = BATCH_DELAY
             ELSE pc' = "batch_loop" /\ dRem' = dRem
    /\ UNCHANGED <<call, mode, items, i, results, stimuli, greeting, log,
                   dyn, peerVars, pingVars, waitVars>>

\* asyncio.sleep(2) is over (74)
BatchDelayDone ==
    /\ pc = "batch_delay"
    /\ dRem = 0
    /\ batch' = [batch EXCEPT !.index = @ + 1]
    /\ pc' = "batch_loop"
    /\ UNCHANGED <<config, call, mode, items, i, results, dRem, stimuli, greeting,
                   log, dyn, peerVars, pingVars, waitVars>>

\* the loop is exhausted: the summary is returned (85-98)
BatchSummary ==
    /\ pc = "batch_loop"
    /\ batch.index > Len(batch.ids)
    /\ batch' = [batch EXCEPT !.successful = CountSuccessful(batch.all_results),
                              !.failed = CountFailed(batch.all_results)]
    /\ pc' = "batch_done"
    /\ UNCHANGED <<config, call, mode, items, i, results, dRem, stimuli, greeting,
                   log, dyn, peerVars, pingVars, waitVars>>

NextBatch ==
    \/ BatchCall
    \/ BatchReturn
    \/ BatchDelayDone
    \/ BatchSummary
    \/ Advance
SpecBatch == InitBatch /\ [][NextBatch]_vars

\* the keepalive task alone
InitPing ==
    /\ InitCommon
    /\ batch = NoBatch
    /\ pc = "api" /\ mode = "ping" /\ items = <<>>
    /\ dyn = [max_steps |-> 0, step_count |-> 0, last_agent_response |-> "",
              exit |-> "", repeated |-> 0, calls |-> 0, openings |-> 0,
              remaining |-> 0]
NextPing ==
    \/ ServerClose
    \/ CloseDone
    \/ Advance
    \/ StartPingCall
    \/ StopPingCall
    \/ PingFireCapped
SpecPing == InitPing /\ [][NextPing]_vars

\* The event loop runs a coroutine whose sleep is over, time passes, and a
\* closing handshake comes to its end.
SpecPingLive ==
    /\ SpecPing
    /\ WF_vars(PingFireCapped)
    /\ WF_vars(Advance)
    /\ WF_vars(CloseDone)

(* ------------------------------ claims ------------------------------- *)
\* _run_single_conversation has returned
SessionReturned == mode \in {"audio", "text", "dynamic"} /\ Over

Max(a, b) == IF a >= b THEN a ELSE b
\* a fixed-sequence dispatcher has returned (the greeting had succeeded)
DispatchReturned ==
    pc = "teardown" /\ mode \in {"audio", "text"} /\ greeting.success
\* the unit wait has returned
WaitReturned == pc = "unit_done"
FinalsGot == {n \in 1..Len(lastWait.got) : IsFinalText(lastWait.got[n])}
DeltasGot == {n \in 1..Len(lastWait.got) : IsDelta(lastWait.got[n])}

\* C1: a dispatcher that returns with the connection still open has recorded
\* exactly one outcome per item, the n-th one carrying stepNumber n and the
\* step name of the n-th item.
C1_OneOutcomePerItem ==
    (DispatchReturned /\ conn = "open") =>
        /\ Len(results) = Len(items)
        /\ \A n \in 1..Len(results) :
              /\ results[n].stepNumber = n
              /\ results[n].step = items[n].step
C1_Witness ==
    /\ DispatchReturned /\ conn = "open" /\ mode = "audio" /\ Len(items) = 2
    /\ results[1].error = "File not found"
    /\ results[2].success /\ results[2].bot.o = NO_RESPONSE

\* C2: in a fixed sequence no stimulus is sent from a state in which the
\* connection is not open, and outcomes are only ever appended, each with
\* the next stepNumber, so those of the items handled before the connection
\* was lost stay in place and in order.
SendsAndAppends ==
    mode \in {"audio", "text"} =>
        /\ (conn # "open" => stimuli' = stimuli)
        /\ \/ results' = results
           \/ /\ Len(results') = Len(results) + 1
              /\ SubSeq(results', 1, Len(results)) = results
              /\ results'[Len(results')].stepNumber = Len(results')
C2_NoSendAfterClose == [][SendsAndAppends]_vars
C2_Witness ==
    /\ DispatchReturned /\ mode = "text" /\ conn = "closed" /\ Len(items) = 2
    /\ Len(stimuli) = 1 /\ Len(results) = 2
    /\ results[1].success
    /\ results[2].error = "WebSocket closed before send"

\* C3: at most one message_handler reads the connection, and a stimulus is
\* sent only while no wait is active and starts the wait of its turn.
SendsWhenIdle ==
    Len(stimuli') > Len(stimuli) => (w = "idle" /\ readers = 0 /\ w' = "recv")
C3_Serialized == [](readers <= 1) /\ [][SendsWhenIdle]_vars
C3_Witness ==
    /\ Len(stimuli) = 2 /\ w = "recv" /\ readers = 1
    /\ Len(results) = 1 /\ results[1].bot.o = "parsed"

\* C4 as stated: a final text received before the deadline is returned,
\* and the wait ends one settle interval later, before the full timeout.
C4_NeverFullTimeout ==
    WaitReturned =>
        \A n \in FinalsGot :
            lastWait.at[n] > 0 =>
                /\ lastWait.out = Parsed(lastWait.got[n])
                /\ lastWait.end = lastWait.at[n] - SETTLE
                /\ lastWait.end > 0
\* C4 amended: the final text received is returned, and the wait ends one
\* settle interval after its receipt or at the deadline, whichever is first.
C4_SettleOrDeadline ==
    WaitReturned =>
        \A n \in FinalsGot :
            /\ lastWait.out = Parsed(lastWait.got[n])
            /\ lastWait.end = Max(lastWait.at[n] - SETTLE, 0)
C4_Witness ==
    /\ WaitReturned /\ lastWait.how = "timeout"
    /\ Len(lastWait.got) = 2 /\ IsFinalText(lastWait.got[2])
    /\ lastWait.at[2] > 0 /\ lastWait.end = 0
    /\ lastWait.out = Parsed(lastWait.got[2])

\* C5: a wait that times out having received only streaming deltas returns
\* the last delta with content.
C5_LastDelta ==
    (/\ WaitReturned /\ lastWait.how = "timeout"
     /\ \A n \in 1..Len(lastWait.got) : lastWait.got[n].kind = RESPONSE_TEXT_DELTA)
    => \A n \in DeltasGot :
          (\A m \in DeltasGot : m <= n) => lastWait.out = Parsed(lastWait.got[n])

\* C6: a wait that times out having received no frame returns no_response.
C6_EmptyTimeout ==
    (WaitReturned /\ lastWait.how = "timeout" /\ lastWait.got = <<>>)
    => lastWait.out = NoResponse
C6_Witness ==
    WaitReturned /\ lastWait.how = "timeout" /\ lastWait.got = <<>> /\ conn = "open"

\* C7: when the first frame of the greeting wait is session.close or
\* idle.terminate, the wait ends at the receipt of that frame and the
\* greeting reports 'Session closed by server: <kind>'.
C7_SessionClosedAtOnce ==
    (WaitReturned /\ lastWait.got # <<>>
        /\ lastWait.got[1].kind \in {SESSION_CLOSE, IDLE_TERMINATE})
    => /\ lastWait.end = lastWait.at[1]
       /\ ~greeting.success
       /\ greeting.error =
            (IF lastWait.got[1].kind = SESSION_CLOSE
             THEN "Session closed by server: session.close"
             ELSE "Session closed by server: idle.terminate")

\* C8: no recorded outcome carries a frame that arrived after the wait of
\* an earlier turn had timed out and before the next stimulus was sent.
C8_LateFrameDropped ==
    \A n \in 1..Len(results) : ~results[n].bot.f.gap

\* C9: a returned frame is never a control frame, is a final text when one
\* was received, and else a delta with content when one was received.
C9_MostInformative ==
    (WaitReturned /\ lastWait.out.o \in {"parsed", "raw"}) =>
        /\ lastWait.out.f.kind \notin ControlKinds
        /\ FinalsGot # {} => IsFinalText(lastWait.out.f)
        /\ (FinalsGot = {} /\ DeltasGot # {}) => IsDelta(lastWait.out.f)

\* C10: once stop_ping has been called, no session.ping is sent and the
\* task's state does not change any more, whatever is done afterwards,
\* a further call of stop_ping included.
QuietOnceStopped ==
    stopCalls >= 1 => (pingsSent' = pingsSent /\ ping' = ping)
C10_NoPingAfterStop == [][QuietOnceStopped]_vars
C10_Witness ==
    stopCalls = 2 /\ conn = "open" /\ pingsSent >= 1 /\ ping = "cancelled"

\* C11: once the keepalive task has been started, every return of
\* _run_single_conversation has called stop_ping and closed the connection,
\* and the close handshake of disconnect never starts before stop_ping.
C11_TeardownAlways ==
    /\ (SessionReturned /\ ping # "none") => (stopCalls >= 1 /\ conn = "closed")
    /\ pc = "closing" => stopCalls >= 1

\* a turn of the dynamic driver ends: the reply has been compared
DynamicTurnEnds == mode = "dynamic" /\ pc = "turn" /\ pc' = "delay"
\* the reply text of the turn that ends
NewReply == BotText(lastWait'.out)
\* the counter is back at its value of the start of the iteration, the
\* last-reply reference is kept
NotAdvanced ==
    /\ dyn'.step_count = dyn.step_count - 1
    /\ dyn'.last_agent_response = dyn.last_agent_response
\* the counter stays one higher than at the start of the iteration, the
\* last-reply reference is the new reply
Advanced ==
    /\ dyn'.step_count = dyn.step_count
    /\ dyn'.last_agent_response = NewReply
\* a text without surrounding whitespace, in lower case and without its
\* final period
Canon(t) ==
    LET c == Lower(Strip(Chars(t)))
    IN  IF c # <<>> /\ c[Len(c)] = "." THEN SubSeq(c, 1, Len(c) - 1) ELSE c
SameSentence(a, b) == Chars(a) # <<>> /\ Chars(b) # <<>> /\ Canon(a) = Canon(b)
\* pairs <<reply, previous reply>> of the same long sentence, and of equal
\* texts
LongOrEqualPairs ==
    {<<"T1", "T1">>, <<"T1", "T2">>, <<"T2", "T1">>, <<"T2", "T2">>,
     <<"T3", "T3">>, <<"T4", "T4">>}

\* C12 as stated: a reply that is the previous reply up to case, surrounding
\* whitespace or a trailing period leaves the step counter and the
\* last-reply reference as they were at the start of the iteration; any
\* other reply advances the counter and becomes the last-reply reference.
RepetitionRetries ==
    DynamicTurnEnds =>
        IF SameSentence(NewReply, dyn.last_agent_response)
        THEN NotAdvanced ELSE Advanced
C12_SameSentenceRetries == [][RepetitionRetries]_vars

\* C12, amended: the step is retried when the reply equals the previous
\* one up to case and surrounding whitespace, or when one contains the
\* other and the contained one has more than 20 characters (the long
\* sentence with and without its period); every other reply, a short
\* sentence that differs by its period included, advances the counter and
\* becomes the last-reply reference.
DetectedRetries ==
    DynamicTurnEnds =>
        IF <<NewReply, dyn.last_agent_response>> \in LongOrEqualPairs
        THEN NotAdvanced ELSE Advanced
C12_DetectedRetries == [][DetectedRetries]_vars
C12_Witness ==
    /\ mode = "dynamic" /\ pc = "delay" /\ dyn.repeated = 1
    /\ dyn.last_agent_response = "T1" /\ BotText(lastWait.out) = "T2"
    /\ dyn.step_count = 1 /\ Len(stimuli) = 2

\* run_dynamic_conversation has returned
DynamicReturned == mode = "dynamic" /\ dyn.exit # ""
ExactlyMaxSteps ==
    /\ dyn.step_count = dyn.max_steps
    /\ Len(stimuli) = dyn.max_steps
    /\ Len(results) = dyn.max_steps

\* C13 as stated: a dynamic run whose generator never failed or returned
\* empty text and in which no reply was taken for a repetition has sent
\* exactly max_steps stimuli and returns exactly max_steps outcomes.
C13_ExactlyMaxSteps ==
    (DynamicReturned /\ dyn.exit \notin {"fail", "empty"} /\ dyn.repeated = 0)
    => ExactlyMaxSteps

\* C13, amended: the same when, moreover, every synthesis and every send
\* succeeded (the loop ended by its bound and every outcome is a success).
C13_ExactlyMaxStepsWhenSent ==
    (/\ DynamicReturned /\ dyn.exit = "limit" /\ dyn.repeated = 0
     /\ \A n \in 1..Len(results) : results[n].success)
    => ExactlyMaxSteps
C13_Witness ==
    /\ DynamicReturned /\ dyn.exit = "limit" /\ dyn.repeated = 0
    /\ dyn.max_steps = 2 /\ Len(stimuli) = 2 /\ Len(results) = 2
    /\ results[1].success /\ results[2].success
    /\ results[1].bot.o = "parsed" /\ results[2].bot.o = NO_RESPONSE

\* C14: the stimuli of one dynamic run are bounded by its maximum step
\* count, whatever the agent replies.
C14_StimuliBounded ==
    mode = "dynamic" => Len(stimuli) <= dyn.max_steps

\* the outcome of a turn whose send or receive failed at the transport
TransportFailed(r) ==
    \/ ~r.success /\ r.error \in {"WebSocket is not open", "send error"}
    \/ r.success /\ r.bot = NoneValue

\* C15: in a dynamic run no turn is recorded after one whose send or
\* receive failed at the transport.
C15_StopsOnTransportError ==
    mode = "dynamic" =>
        \A n \in 1..Len(results) : TransportFailed(results[n]) => n = Len(results)

\* C16: a dynamic run never loses a recorded outcome: whatever ends the
\* run, the outcomes recorded so far stay, in order, at the head of the
\* list it returns.
OutcomesKept ==
    mode = "dynamic" =>
        /\ Len(results') >= Len(results)
        /\ SubSeq(results', 1, Len(results)) = results
C16_OutcomesKept == [][OutcomesKept]_vars

\* C17: when disconnect has returned, the transport close has been
\* performed: the connection is closed.
C17_AlwaysCloses ==
    pc \in {"done", "unclosed"} => conn = "closed"

\* the agent has sent its greeting and one frame per text stimulus, and the
\* n-th stimulus was answered by the frame after it: a final text, distinct
\* from the other replies
EachTextAnswered ==
    /\ DispatchReturned /\ mode = "text"
    /\ srvSent = Len(items) + 1
    /\ Len(results) = Len(items)
    /\ \A n \in 1..Len(results) :
          /\ results[n].bot.o = "parsed"
          /\ IsFinalText(results[n].bot.f)
          /\ results[n].bot.f.id = n + 1
          /\ \A m \in 1..Len(results) :
                m # n => results[m].bot.f.text # results[n].bot.f.text
\* the entries the dispatcher appended: all but the greeting's
FromDispatch == Len(log) - 2 * Len(items)

\* C18: a text sequence of N stimuli, each answered by its own final text,
\* returns N successful outcomes numbered 1..N and has appended 2N log
\* entries: User stimulus n, then Agent reply n, for n = 1..N.
C18_AlternatingLog ==
    EachTextAnswered =>
        /\ \A n \in 1..Len(results) :
              results[n].success /\ results[n].stepNumber = n
        /\ FromDispatch \in {0, 1}
        /\ \A n \in 1..Len(items) :
              /\ log[FromDispatch + 2 * n - 1] = [who |-> "User", text |-> UserText(n)]
              /\ log[FromDispatch + 2 * n] =
                    [who |-> "Agent", text |-> results[n].bot.f.text]
C18_Witness ==
    /\ EachTextAnswered /\ Len(items) = 2 /\ Len(stimuli) = 2
    /\ log = <<[who |-> "Agent", text |-> "T1"],
               [who |-> "User", text |-> "U1"], [who |-> "Agent", text |-> "T3"],
               [who |-> "User", text |-> "U2"], [who |-> "Agent", text |-> "T1"]>>

\* C19: at the timeout the wait returns a final text with content if one
\* was collected, else a delta with content if one was collected, else the
\* first frame collected, and no_response only when none was.
C19_PriorityAtTimeout ==
    (WaitReturned /\ lastWait.how = "timeout") =>
        IF FinalsGot # {}
        THEN \E n \in FinalsGot : lastWait.out = Parsed(lastWait.got[n])
        ELSE IF DeltasGot # {}
        THEN \E n \in DeltasGot : lastWait.out = Parsed(lastWait.got[n])
        ELSE IF lastWait.got # <<>>
        THEN lastWait.out = Raw(lastWait.got[1])
        ELSE lastWait.out = NoResponse

\* C20: in a fixed sequence no stimulus is sent twice, and an item whose
\* stimulus was not sent is recorded as a failure.
C20_FailedSendRecorded ==
    mode \in {"audio", "text"} =>
        /\ \A a, b \in 1..Len(stimuli) : stimuli[a] = stimuli[b] => a = b
        /\ \A n \in 1..Len(results) :
              results[n].success => \E a \in 1..Len(stimuli) : stimuli[a] = n

\* C21: a wait ended by the close of the connection returns the error
\* outcome.
C21_ReceiveErrorIsError ==
    (WaitReturned /\ lastWait.how = "closed") => lastWait.out = ErrorValue

\* C22: a frame that arrived during the settle interval of a wait is not
\* left pending when that wait has returned, and no wait receives a frame
\* that arrived during the settle interval of an earlier wait.
C22_SettleFramesAbsorbed ==
    /\ w = "idle" => \A n \in 1..Len(inbox) : ~inbox[n].settle
    /\ \A n \in 1..Len(responses) : ~responses[n].settle

\* C23: the settle interval is entered only at a final text with content,
\* and a wait ends only resolved by such a frame, at the timeout or by a
\* receive error.
C23_OnlyFinalEnds ==
    /\ w = "settle" => IsFinalText(responses[Len(responses)])
    /\ WaitReturned => lastWait.how \in {"resolved", "timeout", "closed"}

\* C24: a wait returns no_response only when it received no frame.
C24_NoResponseOnlyWhenEmpty ==
    (WaitReturned /\ lastWait.out = NoResponse) => lastWait.got = <<>>

\* a step of ping_loop: a heartbeat is sent or the loop is left
KeepaliveStep ==
    \/ pingsSent' # pingsSent
    \/ ping = "sleep" /\ ping' \in {"done", "failed"}
KeepaliveOnlySends ==
    KeepaliveStep =>
        /\ inbox' = inbox
        /\ UNCHANGED waitVars
        /\ UNCHANGED <<results, greeting, log>>
\* C25: a step of the keepalive takes no frame off the connection and
\* leaves the wait, the frames it has collected and the recorded outcomes
\* as they are.
C25_KeepaliveOnlySends == [][KeepaliveOnlySends]_vars
C25_Witness ==
    /\ ping = "sleep" /\ pRem = PING_INTERVAL /\ pingsSent >= 1
    /\ w = "recv" /\ inbox # <<>> /\ responses # <<>>

\* the greeting wait of a session has returned and no turn has followed
GreetingWaitOver ==
    /\ mode \in {"audio", "text", "dynamic"}
    /\ w = "idle" /\ lastWait.how # "none"
    /\ results = <<>> /\ stimuli = <<>>
\* C26: when the greeting wait has returned on an open connection and the
\* keepalive was not cancelled, a session.ping was sent for every keepalive
\* interval that elapsed before the wait ended.
C26_PingsDuringWait ==
    (GreetingWaitOver /\ conn = "open" /\ stopCalls = 0)
    => pingsSent >= (RESPONSE_TIMEOUT - lastWait.end - 1) \div PING_INTERVAL
C26_Witness ==
    /\ GreetingWaitOver /\ conn = "open" /\ stopCalls = 0
    /\ lastWait.how = "timeout" /\ lastWait.end = 0 /\ lastWait.got # <<>>
    /\ pingsSent = 1 /\ ping = "sleep" /\ pRem = 0

KeepaliveEnds ==
    /\ pingsSent' # pingsSent => (conn = "open" /\ ping = "sleep")
    /\ (ping = "sleep" /\ pRem = 0 /\ conn # "open" /\ ping' # ping)
          => (ping' \in {"done", "cancelled"} /\ pingsSent' = pingsSent)
    /\ (ping' = "failed" /\ ping # "failed") => pingsSent' = pingsSent
    /\ ping \in {"done", "failed"} => (ping' = ping /\ pingsSent' = pingsSent)
\* C27: a session.ping is sent only on an open connection by the sleeping
\* task; at its first wake-up on a connection that is not open the loop
\* ends and nothing is sent; a failed send ends the loop; an ended loop
\* stays ended and sends nothing; a task sleeping on a connection that is
\* not open comes to leave its sleep for good.
C27_KeepaliveEnds ==
    /\ [][KeepaliveEnds]_vars
    /\ (ping = "sleep" /\ conn # "open") ~> (ping # "sleep")
C27_Witness ==
    /\ ping = "done" /\ conn = "closed" /\ pingsSent >= 1 /\ stopCalls = 0
C27_WitnessFailed ==
    /\ ping = "failed" /\ conn # "open" /\ pingsSent >= 1 /\ stopCalls = 0

OneGreetingFirst ==
    /\ (pc = "grace" /\ pc' = "start" /\ conn = "open")
          => (/\ greetSent = 0 /\ greetSent' = 1
              /\ pingsSent = 0 /\ ping = "none" /\ stimuli = <<>>)
    /\ greetSent' # greetSent => pc = "grace"
\* C28: when create_connection returns success on a connection open after
\* the grace delay, it has sent one session.greeting, no session.ping and
\* no stimulus was sent before, and no session.greeting is sent afterwards.
C28_OneGreetingFirst == [][OneGreetingFirst]_vars
C28_Witness ==
    /\ greetSent = 1 /\ pingsSent >= 1 /\ stimuli # <<>> /\ conn = "open"

\* the payload of item n is not there: the download failed or the file is
\* missing
Unavailable(n) == ~items[n].success \/ items[n].file = "missing"
NotSent(n) ==
    /\ ~results[n].success
    /\ results[n].bot = Absent
    /\ \A a \in 1..Len(stimuli) : stimuli[a] # n
\* C29 as stated: an item whose payload is unavailable gets a failure
\* outcome, no stimulus is sent and no wait is made for it, and the loop
\* goes on to the next item.
C29_UnavailableContinues ==
    mode = "audio" =>
        \A n \in 1..Len(results) :
            Unavailable(n) => (NotSent(n) /\ i > n)
\* C29 amended: as stated, except that an item whose download succeeded
\* and which is reached on a closed connection is recorded as 'WebSocket
\* closed before send' and ends the sequence, its file missing or not.
C29_UnavailableContinuesUnlessClosed ==
    mode = "audio" =>
        \A n \in 1..Len(results) :
            Unavailable(n) =>
                /\ NotSent(n)
                /\ \/ i > n
                   \/ /\ items[n].success
                      /\ results[n].error = "WebSocket closed before send"
                      /\ i = n /\ Len(results) = n
C29_Witness ==
    /\ mode = "audio" /\ Len(items) = 2 /\ Len(results) = 2
    /\ items[1].success /\ items[1].file = "missing"
    /\ results[1].error = "File not found"
    /\ stimuli = <<2>> /\ results[2].success /\ results[2].bot.o = "parsed"

\* the wait of a turn of a fixed sequence returns
TurnReturns == pc = "turn" /\ pc' # "turn" /\ mode \in {"audio", "text"}
ReplyLogged ==
    (TurnReturns /\ lastWait'.out.o = "parsed")
    => /\ log # <<>>
       /\ log[Len(log)] = [who |-> "User", text |-> UserText(i)]
       /\ log' = Append(log, [who |-> "Agent", text |-> lastWait'.out.f.text])
\* C30: when the wait of a turn returns a final text or a delta, the log
\* ends with the User entry of the turn and gets one Agent entry with the
\* reply text appended; nothing else of the log changes.
C30_ReplyLogged == [][ReplyLogged]_vars

\* trimming and lower-casing, written from their meaning
Blank(c) == c \in {" ", "\t", "\n"}
RECURSIVE DropLeading(_)
DropLeading(s) ==
    IF s = <<>> \/ ~Blank(Head(s)) THEN s ELSE DropLeading(Tail(s))
RECURSIVE DropTrailing(_)
DropTrailing(s) ==
    IF s = <<>> \/ ~Blank(s[Len(s)]) THEN s
    ELSE DropTrailing(SubSeq(s, 1, Len(s) - 1))
LowerOf(c) ==
    IF \E k \in 1..Len(UpperCase) : UpperCase[k] = c
    THEN LowerCase[CHOOSE k \in 1..Len(UpperCase) : UpperCase[k] = c]
    ELSE c
Normal(t) ==
    LET s == DropTrailing(DropLeading(Chars(t)))
    IN  [n \in 1..Len(s) |-> LowerOf(s[n])]
Within(a, b) ==
    \E k \in 0..Len(b) :
        /\ k + Len(a) <= Len(b)
        /\ \A n \in 1..Len(a) : b[k + n] = a[n]
RepeatedAsStated(c, p) ==
    /\ Chars(c) # <<>> /\ Chars(p) # <<>>
    /\ \/ Normal(c) = Normal(p)
       \/ \E pair \in {<<Normal(c), Normal(p)>>, <<Normal(p), Normal(c)>>} :
             /\ Within(pair[1], pair[2])
             /\ Len(pair[1]) > MIN_CONTAIN
\* C31: is_repeated_agent_prompt is true exactly when both texts are
\* non-empty and their trimmed lower-case forms are equal or one of them,
\* longer than 20 characters, is contained in the other; the two arguments
\* may be exchanged.
C31_RepetitionTest ==
    pc = "fn_done" =>
        /\ results[1] = RepeatedAsStated(items[1].current, items[1].previous)
        /\ results[1] = is_repeated_agent_prompt(items[1].previous, items[1].current)
C31_Witness ==
    /\ pc = "fn_done" /\ results[1]
    /\ items[1].current = "S21" /\ items[1].previous = "T5"

\* the generator has returned empty text
EmptyGenerated == dyn.exit = "" /\ dyn'.exit = "empty"
EmptyEndsRun ==
    /\ EmptyGenerated =>
          /\ results' = results /\ stimuli' = stimuli /\ log' = log
          /\ UNCHANGED waitVars
          /\ pc' = "teardown"
    /\ dyn.exit = "empty" =>
          /\ results' = results /\ stimuli' = stimuli
          /\ dyn'.calls = dyn.calls
\* C32: at the iteration where the generator returns empty text nothing is
\* sent and no wait is made, the loop is left, and the outcomes of the
\* earlier iterations are what the run returns: no entry is added, changed
\* or removed then or later.
C32_EmptyEndsRun == [][EmptyEndsRun]_vars
C32_Witness ==
    /\ dyn.exit = "empty" /\ pc = "done" /\ dyn.calls = 2
    /\ Len(results) = 1 /\ results[1].success /\ stimuli = <<1>>

\* generate_next_user_utterance is called
GenCall == dyn'.calls = dyn.calls + 1
OpeningOnFirstCall ==
    GenCall => dyn'.openings - dyn.openings = (IF dyn.calls = 0 THEN 1 ELSE 0)
\* C33: the generator is called with initial_opening set on the first call
\* of a run and on no later call.
C33_OpeningOnFirstCall == [][OpeningOnFirstCall]_vars
C33_Witness ==
    /\ mode = "dynamic" /\ dyn.calls = 3 /\ dyn.repeated >= 1
    /\ dyn.openings = 1 /\ pc = "turn"

\* C34: in a dynamic run step_count is within 0..max_steps at the loop
\* test and within 1..max_steps in the loop body, and every remaining_steps
\* passed to the generator is within 1..max_steps.
C34_StepCounterInRange ==
    mode = "dynamic" =>
        /\ pc = "loop" => dyn.step_count \in 0..dyn.max_steps
        /\ pc \in {"turn", "delay"} => dyn.step_count \in 1..dyn.max_steps
        /\ dyn.calls >= 1 => dyn.remaining \in 1..dyn.max_steps
C34_Witness ==
    /\ mode = "dynamic" /\ pc = "delay" /\ dyn.max_steps = 2
    /\ dyn.repeated = 1 /\ dyn.step_count = 1 /\ dyn.remaining = 1
    /\ dyn.calls = 2

\* wait_for_target_bot_greeting returns to the session
GreetingReturns == pc = "greet" /\ pc' # "greet"
GreetingNeedsFrame ==
    GreetingReturns =>
        /\ greeting'.success => lastWait'.got # <<>>
        /\ lastWait'.out.o \in {"error", "none", NO_RESPONSE} =>
              (~greeting'.success /\ pc' = "teardown")
\* C35: the greeting is reported successful only when the greeting wait
\* received a frame; when the wait returned the error outcome, None (closed
\* connection) or no_response, the greeting is reported failed, the
\* session goes to its teardown, and no stimulus is ever sent.
C35_GreetingNeedsFrame ==
    /\ [](~greeting.success => stimuli = <<>>)
    /\ [][GreetingNeedsFrame]_vars

C38_ConversationIdRestored ==
    pc \in ReturnPcs =>
        config.conversation_id = call.original_conversation_id
C38_Witness ==
    /\ pc = "raised" /\ call.conversation_id = "c1"
    /\ call.original_conversation_id = "c0" /\ config.conversation_id = "c0"
C38_WitnessDone ==
    /\ pc = "done" /\ stimuli # <<>> /\ call.conversation_id = "c1"
    /\ config.conversation_id = "c0"
C38_WitnessDuring ==
    /\ pc = "turn" /\ config.conversation_id = "c1"
    /\ call.original_conversation_id = "c0"

====
